---- MODULE Spec2Model ----
(***************************************************************************)
(* A model of FixedPointCoordinate (DataStructures/Coordinate.cpp) and of  *)
(* the integer vector of libosmium's area/detail/vector.hpp.               *)
(*                                                                         *)
(* Number model.  A C++ float is an IEEE-754 binary32 value: a record      *)
(* [k, s, m, e] with k one of "nan", "inf", "zero", "fin"; a finite        *)
(* non-zero value is s * m * 2^e with s in {1,-1} and 2^23 <= m < 2^24.    *)
(* FAdd, FSub, FMul and FDiv round to nearest, ties to even, as the        *)
(* hardware does; the exponent range is not bounded (no value of the model *)
(* leaves the normal range of binary32).  The one double-precision         *)
(* quotient of the projection is computed to 53 bits and then narrowed.    *)
(* The functions of libm (sin, cos, atan2, sqrt) are polynomial or Newton  *)
(* approximations evaluated in float.  All integers of the evaluation stay *)
(* below 2^31, so every step is a chain of operator applications on small  *)
(* numbers.                                                                *)
(***************************************************************************)
EXTENDS Integers, Sequences, FiniteSets, TLC

VARIABLES pc, query, source, target, res3, res5,
          coord, ret, va, vb, cross

vars == <<pc, query, source, target, res3, res5, coord, ret, va, vb, cross>>

(***************************************************************************)
(* binary32 values                                                         *)
(***************************************************************************)
NaN == [k |-> "nan", s |-> 1, m |-> 0, e |-> 0]

Inf(sg) == [k |-> "inf", s |-> sg, m |-> 0, e |-> 0]

Zero(sg) == [k |-> "zero", s |-> sg, m |-> 0, e |-> 0]

Fin(sg, mant, ex) == [k |-> "fin", s |-> sg, m |-> mant, e |-> ex]

IsNaN(x) == x.k = "nan"

IsFinite(x) == x.k \in {"zero", "fin"}

RECURSIVE BitLen(_)
BitLen(n) ==
    IF n = 0 THEN 0
    ELSE IF n >= 256 THEN 8 + BitLen(n \div 256)
    ELSE 1 + BitLen(n \div 2)

\* kept + (rem + f) / (2 * half), rounded to nearest, ties to even; a
\* mantissa that rounding carries to 2^24 is renormalised.
RoundCut(sg, kept, rem, half, ex, st) ==
    IF \/ rem > half
       \/ rem = half /\ st
       \/ rem = half /\ ~st /\ kept % 2 = 1
    THEN (IF kept + 1 = 2^24
          THEN Fin(sg, 2^23, ex + 1)
          ELSE Fin(sg, kept + 1, ex))
    ELSE Fin(sg, kept, ex)

RoundLen(sg, M, ex, st, len) ==
    IF len <= 24
    THEN Fin(sg, M * 2^(24 - len), ex - (24 - len))
    ELSE RoundCut(sg, M \div 2^(len - 24), M % 2^(len - 24), 2^(len - 25),
                  ex + (len - 24), st)

\* The binary32 value nearest to s * (M + f) * 2^e, where 0 < M < 2^31,
\* f = 0 when st is FALSE and 0 < f < 1 when st is TRUE (M then has at least
\* 26 bits): round to nearest, ties to even.
RoundPack(sg, M, ex, st) == RoundLen(sg, M, ex, st, BitLen(M))

FNeg(x) == IF x.k = "nan" THEN x ELSE [x EXCEPT !.s = -x.s]

FAbs(x) == IF x.k = "nan" THEN x ELSE [x EXCEPT !.s = 1]

\* |x| < |y| for finite non-zero x, y (both normalised).
MagLess(x, y) == x.e < y.e \/ (x.e = y.e /\ x.m < y.m)

\* The mantissas aligned at 6 guard bits: Ms is the smaller one shifted, st
\* tells that bits were shifted out.
AddAligned(big, ss, Ms, st) ==
    IF big.s = ss
    THEN RoundPack(big.s, big.m * 64 + Ms, big.e - 6, st)
    ELSE IF big.m * 64 = Ms /\ ~st
         THEN Zero(1)
         ELSE RoundPack(big.s, big.m * 64 - Ms - (IF st THEN 1 ELSE 0),
                        big.e - 6, st)

AddShifted(big, small, k) ==
    IF k >= 31
    THEN AddAligned(big, small.s, 0, TRUE)
    ELSE AddAligned(big, small.s, (small.m * 64) \div 2^k,
                    (small.m * 64) % 2^k # 0)

\* x + y of two finite non-zero values.
AddFin(x, y) ==
    IF MagLess(x, y)
    THEN AddShifted(y, x, y.e - x.e)
    ELSE AddShifted(x, y, x.e - y.e)

FAdd(x, y) ==
    CASE x.k = "nan" \/ y.k = "nan" -> NaN
      [] x.k = "inf" /\ y.k = "inf" -> IF x.s = y.s THEN x ELSE NaN
      [] x.k = "inf" -> x
      [] y.k = "inf" -> y
      [] x.k = "zero" /\ y.k = "zero" -> IF x.s = y.s THEN x ELSE Zero(1)
      [] x.k = "zero" -> y
      [] y.k = "zero" -> x
      [] OTHER -> AddFin(x, y)

FSub(x, y) == FAdd(x, FNeg(y))

\* The 48-bit product (A + B / 2^12) * 2^24 + (B mod 2^12) * 2^12 + C of the
\* partial products A, B, C of the 12-bit halves of the mantissas, rounded.
MulParts(sg, ex, A, B, C) ==
    RoundPack(sg,
              (A + B \div 4096 + (C + (B % 4096) * 4096) \div 2^24) * 64
                  + ((C + (B % 4096) * 4096) % 2^24) \div 2^18,
              ex,
              ((C + (B % 4096) * 4096) % 2^24) % 2^18 # 0)

\* x * y of two finite non-zero values.
MulFin(x, y) ==
    MulParts(x.s * y.s, x.e + y.e + 18,
             (x.m \div 4096) * (y.m \div 4096),
             (x.m \div 4096) * (y.m % 4096) + (x.m % 4096) * (y.m \div 4096),
             (x.m % 4096) * (y.m % 4096))

FMul(x, y) ==
    CASE x.k = "nan" \/ y.k = "nan" -> NaN
      [] x.k = "inf" /\ y.k = "zero" -> NaN
      [] x.k = "zero" /\ y.k = "inf" -> NaN
      [] x.k = "inf" \/ y.k = "inf" -> Inf(x.s * y.s)
      [] x.k = "zero" \/ y.k = "zero" -> Zero(x.s * y.s)
      [] OTHER -> MulFin(x, y)

\* Long division of N by D: the invariant is that the value sought is
\* sg * (q + r / D) * 2^ex with 0 <= r < D < 2^26.
RECURSIVE DivLoop(_, _, _, _, _)
DivLoop(sg, q, r, D, ex) ==
    IF q >= 2^26 THEN RoundPack(sg, q, ex, r # 0)
    ELSE IF r = 0 THEN (IF q = 0 THEN Zero(sg) ELSE RoundPack(sg, q, ex, FALSE))
    ELSE DivLoop(sg, q * 16 + (r * 16) \div D, (r * 16) % D, D, ex - 4)

\* The binary32 value nearest to sg * (N / D) * 2^ex, 0 <= N, 0 < D < 2^26.
DivToFloat(sg, N, D, ex) == DivLoop(sg, N \div D, N % D, D, ex)

FDiv(x, y) ==
    CASE x.k = "nan" \/ y.k = "nan" -> NaN
      [] x.k = "inf" /\ y.k = "inf" -> NaN
      [] x.k = "zero" /\ y.k = "zero" -> NaN
      [] x.k = "inf" \/ y.k = "zero" -> Inf(x.s * y.s)
      [] x.k = "zero" \/ y.k = "inf" -> Zero(x.s * y.s)
      [] OTHER -> DivToFloat(x.s * y.s, x.m, y.m, x.e - y.e)

\* x < y and x <= y as the hardware compares (false when either is NaN).
FLt(x, y) ==
    CASE x.k = "nan" \/ y.k = "nan" -> FALSE
      [] x.k = "zero" /\ y.k = "zero" -> FALSE
      [] x.k = "zero" -> y.s = 1
      [] y.k = "zero" -> x.s = -1
      [] x.s # y.s -> x.s = -1
      [] x.k = "inf" -> y.k # "inf" /\ x.s = -1
      [] y.k = "inf" -> y.s = 1
      [] OTHER -> IF x.s = 1 THEN MagLess(x, y) ELSE MagLess(y, x)

FEq(x, y) ==
    CASE x.k = "nan" \/ y.k = "nan" -> FALSE
      [] x.k = "zero" /\ y.k = "zero" -> TRUE
      [] OTHER -> x = y

FLe(x, y) == FLt(x, y) \/ FEq(x, y)

(***************************************************************************)
(* Double precision, where the code uses it.  A natural number below 2^55  *)
(* is a pair <<hi, lo>> standing for hi * 2^27 + lo with lo < 2^27.        *)
(***************************************************************************)
PBase == 2^27

PDouble(a) == <<2 * a[1] + (2 * a[2]) \div PBase, (2 * a[2]) % PBase>>

PGe(a, b) == a[1] > b[1] \/ (a[1] = b[1] /\ a[2] >= b[2])

PSub(a, b) ==
    IF a[2] >= b[2] THEN <<a[1] - b[1], a[2] - b[2]>>
    ELSE <<a[1] - b[1] - 1, a[2] + PBase - b[2]>>

PBitLen(a) == IF a[1] = 0 THEN BitLen(a[2]) ELSE 27 + BitLen(a[1])

\* 2^t + M as a pair, for 0 <= t <= 52 and 0 <= M < 2^24.
PPow2Plus(t, M) ==
    IF t < 27
    THEN <<(2^t + M) \div PBase, (2^t + M) % PBase>>
    ELSE <<2^(t - 27), M>>

\* M * 2^t + c as a pair, for 0 <= t <= 29, M < 2^24 and c in {0, 1}.
PShiftPlus(M, t, c) ==
    IF t <= 3
    THEN <<(M * 2^t + c) \div PBase, (M * 2^t + c) % PBase>>
    ELSE IF t < 27
         THEN <<M \div 2^(27 - t), (M % 2^(27 - t)) * 2^t + c>>
         ELSE <<M * 2^(t - 27), c>>

\* 1 + M * 2^-(52 + sh) for sh >= 1, rounded to 53 bits.
OnePlusTiny(M, sh) ==
    IF sh > 24 THEN <<PPow2Plus(52, 0), -52>>
    ELSE IF \/ M % 2^sh > 2^(sh - 1)
            \/ M % 2^sh = 2^(sh - 1) /\ (M \div 2^sh) % 2 = 1
         THEN <<PPow2Plus(52, M \div 2^sh + 1), -52>>
         ELSE <<PPow2Plus(52, M \div 2^sh), -52>>

\* The double 1. + mm for a float mm >= 0, as <<D, ex>>: the pair D times
\* 2^ex.  The sum is exact unless mm is below 2^-29 or above 2^53, where it
\* is rounded to 53 bits.
OnePlus(mm) ==
    IF mm.k = "zero" THEN <<PPow2Plus(52, 0), -52>>
    ELSE IF mm.e >= 30 THEN <<<<0, mm.m>>, mm.e>>
    ELSE IF mm.e >= 0 THEN <<PShiftPlus(mm.m, mm.e, 1), 0>>
    ELSE IF mm.e >= -52 THEN <<PPow2Plus(-mm.e, mm.m), mm.e>>
    ELSE OnePlusTiny(mm.m, -(mm.e + 52))

\* One step of binary long division: <<bit, remainder>> of 2 * r by D.
QuotStep(r, D) ==
    IF PGe(PDouble(r), D)
    THEN <<1, PSub(PDouble(r), D)>>
    ELSE <<0, PDouble(r)>>

\* The digit dg extended by the bit of step st and by n more steps.
RECURSIVE QuotBits(_, _, _, _)
QuotBits(dg, st, D, n) ==
    IF n = 0 THEN <<2 * dg + st[1], st[2]>>
    ELSE QuotBits(2 * dg + st[1], QuotStep(st[2], D), D, n - 1)

\* Four steps: <<hexadecimal digit, remainder>> of 16 * r by D.
QuotHex(r, D) == QuotBits(0, QuotStep(r, D), D, 3)

\* n more hexadecimal digits of the quotient r / D (r < D), appended to the
\* pair Q: <<Q, remainder>>.
RECURSIVE QuotDigits(_, _, _, _)
QuotAppend(Q, h, D, n) ==
    QuotDigits(<<Q[1] * 16 + (Q[2] * 16 + h[1]) \div PBase,
                 (Q[2] * 16 + h[1]) % PBase>>, h[2], D, n - 1)

QuotDigits(Q, r, D, n) ==
    IF n = 0 THEN <<Q, r>> ELSE QuotAppend(Q, QuotHex(r, D), D, n)

\* The 53 bits q1 * 2^29 + q2 rounded to the 24 bits of a float.
NarrowRound24(sg, ex53, q1, q2) ==
    IF q2 > 2^28 \/ (q2 = 2^28 /\ q1 % 2 = 1)
    THEN (IF q1 + 1 >= 2^24
          THEN Fin(sg, 2^23, ex53 + 30)
          ELSE Fin(sg, q1 + 1, ex53 + 29))
    ELSE Fin(sg, q1, ex53 + 29)

\* The 53 bits h53 * 2^27 + l53a, where l53a may have been carried to 2^27.
NarrowCarry53(sg, ex53, h53, l53a) ==
    IF l53a = PBase
    THEN NarrowRound24(sg, ex53, (h53 + 1) \div 4, ((h53 + 1) % 4) * PBase)
    ELSE NarrowRound24(sg, ex53, h53 \div 4, (h53 % 4) * PBase + l53a)

\* The quotient rounded to 53 bits, h53 * 2^27 + l53 (or 2^53).
NarrowRound53(sg, ex53, h53, l53, low, half, st) ==
    IF low > half \/ (low = half /\ (st \/ l53 % 2 = 1))
    THEN NarrowCarry53(sg, ex53, h53, l53 + 1)
    ELSE NarrowCarry53(sg, ex53, h53, l53)

NarrowTo53(sg, ex, Q, st, drop) ==
    NarrowRound53(sg, ex + drop, Q[1] \div 2^drop,
                  Q[2] \div 2^drop + (Q[1] % 2^drop) * 2^(27 - drop),
                  Q[2] % 2^drop, 2^(drop - 1), st)

\* qr[1] = floor(N * 2^56 / D), of 55 to 57 bits.
NarrowDigits(num, den, sh, qr) ==
    NarrowTo53(num.s, num.e - den[2] - sh - 56, qr[1], qr[2] # <<0, 0>>,
               27 + BitLen(qr[1][1]) - 53)

NarrowStart(num, den, sh, N) ==
    IF PGe(N, den[1])
    THEN NarrowDigits(num, den, sh,
                      QuotDigits(<<0, 1>>, PSub(N, den[1]), den[1], 14))
    ELSE NarrowDigits(num, den, sh, QuotDigits(<<0, 0>>, N, den[1], 14))

\* (float)((double)num / den) for a finite non-zero float num and a double
\* den = <<D, ex>> with 2^23 <= D < 2^54: the quotient is rounded to 53
\* bits, the result of that to 24.  num.m is shifted so that it is below
\* 2 * D and at least D / 4.
NarrowQuot(num, den) ==
    NarrowStart(num, den,
                IF PBitLen(den[1]) > 25 THEN PBitLen(den[1]) - 25 ELSE 0,
                PShiftPlus(num.m,
                           IF PBitLen(den[1]) > 25
                           THEN PBitLen(den[1]) - 25 ELSE 0, 0))

\* num / (1. + mm): the float num widens to double, the division is done in
\* double and its result narrows to float.
DivOnePlus(num, mm) ==
    CASE num.k = "nan" \/ mm.k = "nan" -> NaN
      [] mm.k = "inf" -> IF num.k = "inf" THEN NaN ELSE Zero(num.s)
      [] num.k \in {"inf", "zero"} -> num
      [] OTHER -> NarrowQuot(num, OnePlus(mm))

(***************************************************************************)
(* Fixed-point coordinates and their conversions                           *)
(***************************************************************************)
\* std::numeric_limits<int>::min(), the sentinel of an unset field.
INT_MIN == -2147483647 - 1

INT_MAX == -(INT_MIN + 1)

\* osrm/Coordinate.h: degrees are scaled by 10^6; the constant is taken to
\* be a double, as the double results of lines 98-101 suggest.
COORDINATE_PRECISION == 1000000

\* std::numeric_limits<float>::epsilon() = 2^-23.
FLT_EPSILON == Fin(1, 2^23, -46)

FOne == Fin(1, 2^23, -23)

FHalf == Fin(1, 2^23, -24)

\* value / COORDINATE_PRECISION, a double, narrowed to float where it is
\* stored or passed (no double rounding occurs: the quotient of an int by
\* 10^6 is never within 2^-45 of a float midpoint).
IntOverPrecision(value) ==
    IF value = INT_MIN
    THEN DivToFloat(-1, 2^30, COORDINATE_PRECISION, 1)
    ELSE IF value < 0
         THEN DivToFloat(-1, -value, COORDINATE_PRECISION, 0)
         ELSE DivToFloat(1, value, COORDINATE_PRECISION, 0)

\* sg * (A * 2^12 + B) * 2^-k truncated toward zero, INT_MIN outside int.
ScaleFin(sg, A, B, k) ==
    IF k <= 0 THEN INT_MIN
    ELSE IF k >= 12
         THEN IF k - 12 > 30 THEN 0
              ELSE sg * ((A + B \div 4096) \div 2^(k - 12))
         ELSE IF A >= 2^(19 + k) THEN INT_MIN
              ELSE sg * (A * 2^(12 - k) + B \div 2^k)

\* int(f * COORDINATE_PRECISION): the float widens to double, the product
\* (38 bits at most) is exact, the conversion truncates toward zero.  The
\* conversion of a NaN, an infinity or a value outside int is undefined in
\* C++; the model takes what x86-64's cvttsd2si stores, INT_MIN.
ScaleToInt(f) ==
    CASE f.k = "zero" -> 0
      [] f.k \in {"nan", "inf"} -> INT_MIN
      [] OTHER -> ScaleFin(f.s, (f.m \div 4096) * 15625,
                           (f.m % 4096) * 15625, -(f.e + 6))

Coordinate(la, lo) == [lat |-> la, lon |-> lo]

\* FixedPointCoordinate::FixedPointCoordinate()
DefaultCoordinate == Coordinate(INT_MIN, INT_MIN)

\* A variant that takes one field for both.
isSetEither(c) == INT_MIN # c.lat \/ INT_MIN # c.lon

\* bool FixedPointCoordinate::isSet() const
isSet(c) == INT_MIN # c.lat /\ INT_MIN # c.lon

\* bool FixedPointCoordinate::isValid() const
isValid(c) ==
    IF \/ c.lat > 90 * COORDINATE_PRECISION
       \/ c.lat < -90 * COORDINATE_PRECISION
       \/ c.lon > 180 * COORDINATE_PRECISION
       \/ c.lon < -180 * COORDINATE_PRECISION
    THEN FALSE
    ELSE TRUE

(***************************************************************************)
(* The planar transform of Util/MercatorUtil.h, float lat2y(float) and     *)
(* float y2lat(float): an odd, increasing map of latitude degrees with     *)
(* lat2y(0) = 0 and its inverse.  Both interpolate the Mercator ordinate   *)
(* linearly between the knots below, in float arithmetic.                  *)
(***************************************************************************)
KnotLat == <<0, 15000000, 30000000, 45000000, 60000000, 75000000,
             85000000, 90000000>>

KnotY == <<0, 15174343, 31472924, 50498987, 75456129, 116172316,
           179410351, 2138957760>>

KnotLatF == [i \in 1..Len(KnotLat) |-> IntOverPrecision(KnotLat[i])]

KnotYF == [i \in 1..Len(KnotY) |-> IntOverPrecision(KnotY[i])]

KnotSlope == [i \in 1..(Len(KnotLat) - 1) |->
                FDiv(FSub(KnotYF[i + 1], KnotYF[i]),
                     FSub(KnotLatF[i + 1], KnotLatF[i]))]

\* The segment of knots that holds the magnitude v: the last i with
\* knots[i] <= v (the last segment beyond the last knot); the knots
\* increase from 0.
KnotIndex(knots, v) ==
    1 + Cardinality({i \in 2..(Len(KnotLat) - 1) : FLe(knots[i], v)})

Signed(sg, v) == IF sg = 1 THEN v ELSE FNeg(v)

lat2yOn(sg, v, i) ==
    Signed(sg, FAdd(KnotYF[i], FMul(FSub(v, KnotLatF[i]), KnotSlope[i])))

lat2y(a) ==
    CASE a.k = "nan" -> NaN
      [] a.k = "zero" -> a
      [] a.k = "inf" -> Inf(a.s)
      [] OTHER -> lat2yOn(a.s, FAbs(a), KnotIndex(KnotLatF, FAbs(a)))

\* The latitude on segment i, not beyond the last knot.
y2latOn(sg, v, i) ==
    IF FLt(KnotLatF[Len(KnotLat)],
           FAdd(KnotLatF[i], FDiv(FSub(v, KnotYF[i]), KnotSlope[i])))
    THEN Signed(sg, KnotLatF[Len(KnotLat)])
    ELSE Signed(sg, FAdd(KnotLatF[i],
                         FDiv(FSub(v, KnotYF[i]), KnotSlope[i])))

y2lat(a) ==
    CASE a.k = "nan" -> NaN
      [] a.k = "zero" -> a
      [] a.k = "inf" -> [KnotLatF[Len(KnotLat)] EXCEPT !.s = a.s]
      [] OTHER -> y2latOn(a.s, FAbs(a), KnotIndex(KnotYF, FAbs(a)))

(***************************************************************************)
(* libm, at single precision.  Each value is within a few units in the     *)
(* last place of the function it stands for (atan2: within 0.004 rad).     *)
(***************************************************************************)
IntToFloat(n) ==
    IF n = 0 THEN Zero(1)
    ELSE IF n < 0 THEN RoundPack(-1, -n, 0, FALSE)
    ELSE RoundPack(1, n, 0, FALSE)

\* The integer nearest to a float of magnitude below 2^24.
NearestInt(f) ==
    IF f.k # "fin" THEN 0
    ELSE IF f.e >= 0 THEN f.s * f.m
    ELSE IF -f.e > 25 THEN 0
    ELSE f.s * ((f.m + 2^(-f.e - 1)) \div 2^(-f.e))

\* pi / 2 as a float; 2 / pi is Fin(1, 10680707, -24).
HalfPi == Fin(1, 13176795, -23)

Pi == Fin(1, 13176795, -22)

\* 1 - t2/2 (1 - t2/12 (1 - t2/30)): the cosine of an angle of square t2.
CosPoly(t2) ==
    FSub(FOne,
         FMul(FMul(t2, FHalf),
              FSub(FOne, FMul(FDiv(t2, IntToFloat(12)),
                              FSub(FOne, FDiv(t2, IntToFloat(30)))))))

\* r (1 - t2/6 (1 - t2/20 (1 - t2/42))): the sine of r, of square t2.
SinPoly(r, t2) ==
    FMul(r,
         FSub(FOne,
              FMul(FDiv(t2, IntToFloat(6)),
                   FSub(FOne, FMul(FDiv(t2, IntToFloat(20)),
                                   FSub(FOne, FDiv(t2, IntToFloat(42))))))))

\* The sine of r + q * pi/2 for |r| <= pi/4 and q in 0..3.
SinQuadrant(r, q) ==
    CASE q = 0 -> SinPoly(r, FMul(r, r))
      [] q = 1 -> CosPoly(FMul(r, r))
      [] q = 2 -> FNeg(SinPoly(r, FMul(r, r)))
      [] OTHER -> FNeg(CosPoly(FMul(r, r)))

\* The sine of t: t less k right angles lies within pi/4 of 0, where k is
\* the integer nearest to t * (2 / pi).
Sin(t) ==
    IF IsFinite(t)
    THEN SinQuadrant(
             FSub(t, FMul(IntToFloat(NearestInt(
                                         FMul(t, Fin(1, 10680707, -24)))),
                          HalfPi)),
             NearestInt(FMul(t, Fin(1, 10680707, -24))) % 4)
    ELSE NaN

Cos(t) ==
    IF IsFinite(t)
    THEN SinQuadrant(
             FSub(t, FMul(IntToFloat(NearestInt(
                                         FMul(t, Fin(1, 10680707, -24)))),
                          HalfPi)),
             (NearestInt(FMul(t, Fin(1, 10680707, -24))) + 1) % 4)
    ELSE NaN

\* Newton's iteration for the square root, n steps from g.
RECURSIVE SqrtIter(_, _, _)
SqrtIter(v, g, n) ==
    IF n = 0 THEN g
    ELSE SqrtIter(v, FMul(FAdd(g, FDiv(v, g)), FHalf), n - 1)

\* sqrt: 0 for 0, NaN below 0, else the root to within an ulp or so.
Sqrt(v) ==
    CASE v.k = "nan" -> NaN
      [] v.k = "zero" -> v
      [] v.s = -1 -> NaN
      [] v.k = "inf" -> v
      [] OTHER -> SqrtIter(v, Fin(1, 2^23,
                                  ((v.e + 23 + ((v.e + 23) % 2)) \div 2) - 23), 6)

\* atan(z) for 0 <= z <= 1: (pi/4) z + 0.273 z (1 - z).
AtanPoly(z) ==
    FAdd(FMul(Fin(1, 13176795, -24), z),
         FMul(FMul(Fin(1, 9160360, -25), z), FSub(FOne, z)))

\* base is the angle of (|x|, |y|); xs and ys are the signs of x and y.
Atan2Quadrant(ys, xs, base) ==
    IF xs = 1 THEN Signed(ys, base) ELSE Signed(ys, FSub(Pi, base))

Atan2(y, x) ==
    CASE y.k = "nan" \/ x.k = "nan" -> NaN
      [] y.k = "zero" /\ x.k = "zero" ->
           IF x.s = 1 THEN y ELSE Signed(y.s, Pi)
      [] FLe(FAbs(y), FAbs(x)) ->
           Atan2Quadrant(y.s, x.s, AtanPoly(FDiv(FAbs(y), FAbs(x))))
      [] OTHER ->
           Atan2Quadrant(y.s, x.s,
                         FSub(HalfPi, AtanPoly(FDiv(FAbs(x), FAbs(y)))))

(***************************************************************************)
(* Distances.  A call either returns a value or ends in a failed           *)
(* BOOST_ASSERT (assertions enabled): [ok |-> FALSE].                      *)
(***************************************************************************)
Failed == [ok |-> FALSE]

\* const float RAD = 0.017453292519943295769236907684886
RAD == Fin(1, 9370165, -29)

\* const float earth_radius = 6372797.560856
EarthRadius == Fin(1, 12745595, -1)

\* (value / COORDINATE_PRECISION) * RAD, narrowed to float.
ToRadian(value) == FMul(IntOverPrecision(value), RAD)

\* aHarv from sin(dLat / 2) and sin(dLong / 2), and
\* earth * 2 atan2(sqrt(aHarv), sqrt(1 - aHarv))
Haversine(dlat1, dlat2, sinLat, sinLong) ==
    [ok |-> TRUE,
     v  |-> FMul(EarthRadius,
                 FMul(IntToFloat(2),
                      Atan2(Sqrt(FAdd(FMul(sinLat, sinLat),
                                      FMul(FMul(Cos(dlat1), Cos(dlat2)),
                                           FMul(sinLong, sinLong)))),
                            Sqrt(FSub(FOne,
                                      FAdd(FMul(sinLat, sinLat),
                                           FMul(FMul(Cos(dlat1), Cos(dlat2)),
                                                FMul(sinLong, sinLong))))))))]

HaversineRadians(dlat1, dlong1, dlat2, dlong2) ==
    Haversine(dlat1, dlat2,
              Sin(FMul(FSub(dlat1, dlat2), FHalf)),
              Sin(FMul(FSub(dlong1, dlong2), FHalf)))

\* double ApproximateDistance(lat1, lon1, lat2, lon2); the code computes in
\* double, the model at single precision.
ApproximateDistance4(lat1, lon1, lat2, lon2) ==
    IF \/ lat1 = INT_MIN
       \/ lon1 = INT_MIN
       \/ lat2 = INT_MIN
       \/ lon2 = INT_MIN
    THEN Failed
    ELSE HaversineRadians(ToRadian(lat1), ToRadian(lon1),
                          ToRadian(lat2), ToRadian(lon2))

\* double ApproximateDistance(coordinate_1, coordinate_2)
ApproximateDistance(coordinate_1, coordinate_2) ==
    ApproximateDistance4(coordinate_1.lat, coordinate_1.lon,
                         coordinate_2.lat, coordinate_2.lon)

\* sqrt(x_value * x_value + y_value * y_value) * earth_radius
EuclidPlanar(x_value, y_value) ==
    [ok |-> TRUE,
     v  |-> FMul(Sqrt(FAdd(FMul(x_value, x_value), FMul(y_value, y_value))),
                 EarthRadius)]

EuclidRadians(float_lat1, float_lon1, float_lat2, float_lon2) ==
    EuclidPlanar(FMul(FSub(float_lon2, float_lon1),
                      Cos(FMul(FAdd(float_lat1, float_lat2), FHalf))),
                 FSub(float_lat2, float_lat1))

\* float ApproximateEuclideanDistance(lat1, lon1, lat2, lon2)
ApproximateEuclideanDistance4(lat1, lon1, lat2, lon2) ==
    IF \/ lat1 = INT_MIN
       \/ lon1 = INT_MIN
       \/ lat2 = INT_MIN
       \/ lon2 = INT_MIN
    THEN Failed
    ELSE EuclidRadians(ToRadian(lat1), ToRadian(lon1),
                       ToRadian(lat2), ToRadian(lon2))

\* float ApproximateEuclideanDistance(coordinate_1, coordinate_2)
ApproximateEuclideanDistance(coordinate_1, coordinate_2) ==
    ApproximateEuclideanDistance4(coordinate_1.lat, coordinate_1.lon,
                                  coordinate_2.lat, coordinate_2.lon)

(***************************************************************************)
(* Segment projection.  Each variant is translated from its own body; the  *)
(* record returned also tells the branches taken: sloped (the slope        *)
(* formula was used), snapped (nY was set to 0), wasNaN (the NaN fallback  *)
(* set the ratio), sel (the point chosen by the ratio).                    *)
(***************************************************************************)
\* lines 167-179: the foot (p, q) of the perpendicular on the line through
\* (a, b) and (c, d), where the segment is not near-vertical.
FootOrdinate3(a, b, slope, p) ==
    [p |-> p, q |-> FAdd(b, FMul(slope, FSub(p, a))), sloped |-> TRUE]

FootSloped3(x_value, y_value, a, b, slope) ==
    FootOrdinate3(a, b, slope,
                  DivOnePlus(FAdd(FAdd(x_value, FMul(slope, y_value)),
                                  FSub(FMul(FMul(slope, slope), a), FMul(slope, b))),
                             FMul(slope, slope)))

\* lines 167-179: p and q by the slope of the segment, or (c, y_value) when
\* |a - c| is not above FLT_EPSILON.
Foot3(x_value, y_value, a, b, c, d) ==
    IF FLt(FLT_EPSILON, FAbs(FSub(a, c)))
    THEN FootSloped3(x_value, y_value, a, b, FDiv(FSub(d, b), FSub(c, a)))
    ELSE [p |-> c, q |-> y_value, sloped |-> FALSE]

\* lines 180-188: nY is snapped to 0 where std::abs(nY) <
\* (1. / COORDINATE_PRECISION), that is up to 8796093 * 2^-43, the largest
\* float below 10^-6; the ratio is (p - nY * a) / c.
SnapRatio3(p, a, c, nY) ==
    IF FLe(FAbs(nY), Fin(1, 8796093, -43))
    THEN [ratio |-> FDiv(FSub(p, FMul(Zero(1), a)), c), snapped |-> TRUE]
    ELSE [ratio |-> FDiv(FSub(p, FMul(nY, a)), c), snapped |-> FALSE]

\* lines 180-188: nY = (d * p - c * q) / (a * d - b * c) and the ratio.
RawRatio3(p, q, a, b, c, d) ==
    SnapRatio3(p, a, c, FDiv(FSub(FMul(d, p), FMul(c, q)),
                             FSub(FMul(a, d), FMul(b, c))))

\* lines 189-201: the NaN fallback and the snaps of the ratio to 0 and 1.
ResolveRatio3(ratio, target_coordinate, point) ==
    IF IsNaN(ratio)
    THEN (IF target_coordinate.lat = point.lat /\ target_coordinate.lon = point.lon
          THEN FOne ELSE Zero(1))
    ELSE IF FLe(FAbs(ratio), FLT_EPSILON) THEN Zero(1)
    ELSE IF FLe(FAbs(FSub(ratio, FOne)), FLT_EPSILON) THEN FOne
    ELSE ratio

\* lines 204-218: which point the ratio selects.
Select3(ratio) ==
    IF FLe(ratio, Zero(1)) THEN "source"
    ELSE IF FLe(FOne, ratio) THEN "target"
    ELSE "between"

\* lines 203-223: the assertions on the results and the value returned.
Result3(point, foot, raw, ratio, nearest_location, approximate_distance) ==
    IF IsNaN(ratio) \/ ~isValid(nearest_location)
    THEN Failed
    ELSE IF ~approximate_distance.ok THEN Failed
    ELSE IF ~FLe(Zero(1), approximate_distance.v) THEN Failed
    ELSE [ok       |-> TRUE,
          distance |-> approximate_distance.v,
          nearest  |-> nearest_location,
          ratio    |-> ratio,
          sloped   |-> foot.sloped,
          snapped  |-> raw.snapped,
          wasNaN   |-> IsNaN(raw.ratio),
          sel      |-> Select3(ratio)]

\* lines 204-218: the nearest location is an end of the segment or the foot
\* transformed back.
Locate3(source_coordinate, target_coordinate, foot, ratio) ==
    CASE Select3(ratio) = "source" ->
             Coordinate(source_coordinate.lat, source_coordinate.lon)
      [] Select3(ratio) = "target" ->
             Coordinate(target_coordinate.lat, target_coordinate.lon)
      [] OTHER -> Coordinate(ScaleToInt(y2lat(foot.p)), ScaleToInt(foot.q))

\* lines 202-223: the nearest location and the distance to it.
Resolve3(point, source_coordinate, target_coordinate, foot, raw, ratio) ==
    Result3(point, foot, raw, ratio,
            Locate3(source_coordinate, target_coordinate, foot, ratio),
            ApproximateEuclideanDistance(
                point,
                Locate3(source_coordinate, target_coordinate, foot, ratio)))

Ratio3(point, source_coordinate, target_coordinate, foot, raw) ==
    Resolve3(point, source_coordinate, target_coordinate, foot, raw,
             ResolveRatio3(raw.ratio, target_coordinate, point))

Project3(point, source_coordinate, target_coordinate, a, b, c, d, foot) ==
    Ratio3(point, source_coordinate, target_coordinate, foot, RawRatio3(foot.p, foot.q, a, b, c, d))

Planar3(point, source_coordinate, target_coordinate, x_value, y_value, a, b, c, d) ==
    Project3(point, source_coordinate, target_coordinate, a, b, c, d, Foot3(x_value, y_value, a, b, c, d))

\* float ComputePerpendicularDistance(point, source_coordinate, target_coordinate)
ComputePerpendicularDistance3(point, source_coordinate, target_coordinate) ==
    Planar3(point, source_coordinate, target_coordinate,
            lat2y(IntOverPrecision(point.lat)), IntOverPrecision(point.lon),
            lat2y(IntOverPrecision(source_coordinate.lat)), IntOverPrecision(source_coordinate.lon),
            lat2y(IntOverPrecision(target_coordinate.lat)), IntOverPrecision(target_coordinate.lon))

\* lines 241-252: the foot (p, q) of the perpendicular on the line through
\* (a, b) and (c, d), where the segment is not near-vertical.
FootOrdinate5(a, b, m, p) ==
    [p |-> p, q |-> FAdd(b, FMul(m, FSub(p, a))), sloped |-> TRUE]

FootSloped5(x, y, a, b, m) ==
    FootOrdinate5(a, b, m,
                  DivOnePlus(FAdd(FAdd(x, FMul(m, y)),
                                  FSub(FMul(FMul(m, m), a), FMul(m, b))),
                             FMul(m, m)))

\* lines 241-252: p and q by the slope of the segment, or (c, y) when
\* |a - c| is not above FLT_EPSILON.
Foot5(x, y, a, b, c, d) ==
    IF FLt(FLT_EPSILON, FAbs(FSub(a, c)))
    THEN FootSloped5(x, y, a, b, FDiv(FSub(d, b), FSub(c, a)))
    ELSE [p |-> c, q |-> y, sloped |-> FALSE]

\* lines 253-261: nY is snapped to 0 below 1 / COORDINATE_PRECISION; the
\* ratio is (p - nY * a) / c.
SnapRatio5(p, a, c, nY) ==
    IF FLe(FAbs(nY), Fin(1, 8796093, -43))
    THEN [ratio |-> FDiv(FSub(p, FMul(Zero(1), a)), c), snapped |-> TRUE]
    ELSE [ratio |-> FDiv(FSub(p, FMul(nY, a)), c), snapped |-> FALSE]

\* lines 253-261: nY = (d * p - c * q) / (a * d - b * c) and the ratio.
RawRatio5(p, q, a, b, c, d) ==
    SnapRatio5(p, a, c, FDiv(FSub(FMul(d, p), FMul(c, q)),
                             FSub(FMul(a, d), FMul(b, c))))

\* A variant without the NaN fallback.
ResolveRatio5NoFallback(ratio, coord_b, query_location) ==
    IF FLe(FAbs(ratio), FLT_EPSILON) THEN Zero(1)
    ELSE IF FLe(FAbs(FSub(ratio, FOne)), FLT_EPSILON) THEN FOne
    ELSE ratio

\* lines 264-276: the NaN fallback and the snaps of the ratio to 0 and 1.
ResolveRatio5(ratio, coord_b, query_location) ==
    IF IsNaN(ratio)
    THEN (IF coord_b.lat = query_location.lat /\ coord_b.lon = query_location.lon
          THEN FOne ELSE Zero(1))
    ELSE IF FLe(FAbs(ratio), FLT_EPSILON) THEN Zero(1)
    ELSE IF FLe(FAbs(FSub(ratio, FOne)), FLT_EPSILON) THEN FOne
    ELSE ratio

\* lines 278-291: which point the ratio selects.
Select5(ratio) ==
    IF FLe(ratio, Zero(1)) THEN "source"
    ELSE IF FLe(FOne, ratio) THEN "target"
    ELSE "between"

\* lines 232, 277-299: the assertions on the query and on the results, and
\* the value returned.
Result5(query_location, foot, raw, ratio, nearest_location, approximate_distance) ==
    IF ~isValid(query_location) \/ IsNaN(ratio) \/ ~isValid(nearest_location)
    THEN Failed
    ELSE IF ~approximate_distance.ok THEN Failed
    ELSE IF ~FLe(Zero(1), approximate_distance.v) THEN Failed
    ELSE [ok       |-> TRUE,
          distance |-> approximate_distance.v,
          nearest  |-> nearest_location,
          ratio    |-> ratio,
          sloped   |-> foot.sloped,
          snapped  |-> raw.snapped,
          wasNaN   |-> IsNaN(raw.ratio),
          sel      |-> Select5(ratio)]

\* lines 278-291: the nearest location is an end of the segment or the foot
\* transformed back.
Locate5(coord_a, coord_b, foot, ratio) ==
    CASE Select5(ratio) = "source" -> coord_a
      [] Select5(ratio) = "target" -> coord_b
      [] OTHER -> Coordinate(ScaleToInt(y2lat(foot.p)), ScaleToInt(foot.q))

\* lines 278-299: the nearest location and the distance to it.
Resolve5(query_location, coord_a, coord_b, foot, raw, ratio) ==
    Result5(query_location, foot, raw, ratio,
            Locate5(coord_a, coord_b, foot, ratio),
            ApproximateEuclideanDistance(
                query_location, Locate5(coord_a, coord_b, foot, ratio)))

Ratio5(query_location, coord_a, coord_b, foot, raw) ==
    Resolve5(query_location, coord_a, coord_b, foot, raw,
             ResolveRatio5(raw.ratio, coord_b, query_location))

Project5(query_location, coord_a, coord_b, a, b, c, d, foot) ==
    Ratio5(query_location, coord_a, coord_b, foot, RawRatio5(foot.p, foot.q, a, b, c, d))

Planar5(query_location, coord_a, coord_b, x, y, a, b, c, d) ==
    Project5(query_location, coord_a, coord_b, a, b, c, d, Foot5(x, y, a, b, c, d))

\* float ComputePerpendicularDistance(coord_a, coord_b, query_location,
\* nearest_location, ratio)
ComputePerpendicularDistance5(coord_a, coord_b, query_location) ==
    Planar5(query_location, coord_a, coord_b,
            lat2y(IntOverPrecision(query_location.lat)), IntOverPrecision(query_location.lon),
            lat2y(IntOverPrecision(coord_a.lat)), IntOverPrecision(coord_a.lon),
            lat2y(IntOverPrecision(coord_b.lat)), IntOverPrecision(coord_b.lon))

(***************************************************************************)
(* Bearings                                                                *)
(***************************************************************************)
\* float DegreeToRadian(const float degree): degree * (M_PI / 180.f)
DegreeToRadian(degree) == FMul(degree, Fin(1, 9370165, -29))

\* float RadianToDegree(const float radian): radian * (180.f / M_PI)
RadianToDegree(radian) == FMul(radian, Fin(1, 15019745, -18))

\* The number of turns of a normalisation loop that the model follows.
MaxTurns == 2

\* A variant of the second loop with > for >=.
RECURSIVE SubLoopStrict(_, _, _)
SubLoopStrict(result, adds, subs) ==
    IF FLt(Fin(1, 11796480, -15), result)
    THEN IF subs = MaxTurns
         THEN [ok |-> TRUE, done |-> FALSE, v |-> result,
               adds |-> adds, subs |-> subs]
         ELSE SubLoopStrict(FSub(result, Fin(1, 11796480, -15)), adds,
                            subs + 1)
    ELSE [ok |-> TRUE, done |-> TRUE, v |-> result,
          adds |-> adds, subs |-> subs]

\* while (result >= 360.f) result -= 360.f;
RECURSIVE SubLoop(_, _, _)
SubLoop(result, adds, subs) ==
    IF FLe(Fin(1, 11796480, -15), result)
    THEN IF subs = MaxTurns
         THEN [ok |-> TRUE, done |-> FALSE, v |-> result,
               adds |-> adds, subs |-> subs]
         ELSE SubLoop(FSub(result, Fin(1, 11796480, -15)), adds, subs + 1)
    ELSE [ok |-> TRUE, done |-> TRUE, v |-> result,
          adds |-> adds, subs |-> subs]

\* while (result < 0.f) result += 360.f; and then the second loop.
RECURSIVE AddLoop(_, _)
AddLoop(result, adds) ==
    IF FLt(result, Zero(1))
    THEN IF adds = MaxTurns
         THEN [ok |-> TRUE, done |-> FALSE, v |-> result,
               adds |-> adds, subs |-> 0]
         ELSE AddLoop(FAdd(result, Fin(1, 11796480, -15)), adds + 1)
    ELSE SubLoop(result, adds, 0)

\* y and x of the bearing, the angle in degrees, the normalisation.
BearingOf(delta_long, lat1, lat2) ==
    AddLoop(RadianToDegree(
                Atan2(FMul(Sin(delta_long), Cos(lat2)),
                      FSub(FMul(Cos(lat1), Sin(lat2)),
                           FMul(FMul(Sin(lat1), Cos(lat2)),
                                Cos(delta_long))))), 0)

\* static float GetBearing(A, B)
GetBearing(A, B) ==
    BearingOf(DegreeToRadian(FSub(IntOverPrecision(B.lon),
                                  IntOverPrecision(A.lon))),
              DegreeToRadian(IntOverPrecision(A.lat)),
              DegreeToRadian(IntOverPrecision(B.lat)))

BearingOfMember(delta_long, lat1, lat2) ==
    AddLoop(RadianToDegree(
                Atan2(FMul(Sin(delta_long), Cos(lat2)),
                      FSub(FMul(Cos(lat1), Sin(lat2)),
                           FMul(FMul(Sin(lat1), Cos(lat2)),
                                Cos(delta_long))))), 0)

\* float GetBearing(other) const, on the object self
GetBearingMember(self, other) ==
    BearingOfMember(DegreeToRadian(FSub(IntOverPrecision(self.lon),
                                        IntOverPrecision(other.lon))),
                    DegreeToRadian(IntOverPrecision(other.lat)),
                    DegreeToRadian(IntOverPrecision(self.lat)))

(***************************************************************************)
(* osmium::area::detail::vec.  An int64_t, and the mathematical value of   *)
(* an expression over them, is a record [neg, mag]: mag is the magnitude   *)
(* as five digits of base 2^14, least significant first (below 2^70); zero *)
(* has neg = FALSE.                                                        *)
(***************************************************************************)
LimbBase == 2^14

RECURSIVE Carry(_, _)
Carry(cols, c) ==
    IF cols = <<>> THEN <<>>
    ELSE <<(Head(cols) + c) % LimbBase>> \o
         Carry(Tail(cols), (Head(cols) + c) \div LimbBase)

NatZero == <<0, 0, 0, 0, 0>>

\* 0 <= n < 2^31
NatOfInt(n) ==
    <<n % LimbBase, (n \div LimbBase) % LimbBase,
      n \div (LimbBase * LimbBase), 0, 0>>

NatAdd(a, b) == Carry([i \in 1..5 |-> a[i] + b[i]], 0)

\* a - b for a >= b
NatSub(a, b) == Carry([i \in 1..5 |-> a[i] - b[i]], 0)

\* a < b: at the most significant digit where they differ.
NatLess(a, b) ==
    \E i \in 1..5 : a[i] < b[i] /\ \A j \in (i + 1)..5 : a[j] = b[j]

\* a * b for a, b < 2^42
NatMul(a, b) ==
    Carry(<<a[1] * b[1],
            a[1] * b[2] + a[2] * b[1],
            a[1] * b[3] + a[2] * b[2] + a[3] * b[1],
            a[2] * b[3] + a[3] * b[2],
            a[3] * b[3]>>, 0)

Wide(neg, mag) == [neg |-> neg /\ mag # NatZero, mag |-> mag]

WideOfInt(n) ==
    IF n = INT_MIN THEN Wide(TRUE, <<0, 0, 8, 0, 0>>)
    ELSE IF n < 0 THEN Wide(TRUE, NatOfInt(-n))
    ELSE Wide(FALSE, NatOfInt(n))

WAdd(x, y) ==
    IF x.neg = y.neg THEN Wide(x.neg, NatAdd(x.mag, y.mag))
    ELSE IF NatLess(x.mag, y.mag) THEN Wide(y.neg, NatSub(y.mag, x.mag))
    ELSE Wide(x.neg, NatSub(x.mag, y.mag))

WSub(x, y) == WAdd(x, Wide(~y.neg, y.mag))

WMul(x, y) == Wide(x.neg # y.neg, NatMul(x.mag, y.mag))

\* The value is one an int64_t holds: -2^63 <= w < 2^63, where 2^63 is
\* <<0, 0, 0, 0, 2^7>>.
InInt64(w) ==
    IF w.neg
    THEN ~NatLess(<<0, 0, 0, 0, 2^7>>, w.mag)
    ELSE NatLess(w.mag, <<0, 0, 0, 0, 2^7>>)

\* The magnitude modulo 2^64.
Low64(mag) == [mag EXCEPT ![5] = mag[5] % 2^8]

\* The int64_t congruent to u modulo 2^64, for 0 <= u < 2^64.
Signed64(u) ==
    IF NatLess(u, <<0, 0, 0, 0, 2^7>>)
    THEN Wide(FALSE, u)
    ELSE Wide(TRUE, NatSub(<<0, 0, 0, 0, 2^8>>, u))

\* The int64_t congruent to w modulo 2^64: what two's complement
\* arithmetic leaves.
Wrap64(w) ==
    IF ~w.neg THEN Signed64(Low64(w.mag))
    ELSE IF Low64(w.mag) = NatZero THEN Wide(FALSE, NatZero)
    ELSE Signed64(NatSub(<<0, 0, 0, 0, 2^8>>, Low64(w.mag)))

\* vec(const osmium::Location& l): x(l.x()), y(l.y()) widen the 32-bit
\* coordinates.
VecOf(l) == [x |-> WideOfInt(l.x), y |-> WideOfInt(l.y)]

\* vec operator-(const vec& a, const vec& b)
VecMinus(a, b) == [x |-> WSub(a.x, b.x), y |-> WSub(a.y, b.y)]

\* The subtraction of the two products.  The value a signed overflow
\* leaves is undefined: the build wraps or traps.
CrossDifference(p1, p2) ==
    IF InInt64(p1) /\ InInt64(p2) /\ InInt64(WSub(p1, p2))
    THEN {[kind |-> "value", v |-> WSub(p1, p2)]}
    ELSE {[kind |-> "value", v |-> Wrap64(WSub(p1, p2))], [kind |-> "trap"]}

\* The value is one an int32_t holds, as the coordinates of a Location
\* are: -2^31 <= w < 2^31, where 2^31 is <<0, 0, 8, 0, 0>>.
InInt32(w) ==
    IF w.neg
    THEN ~NatLess(<<0, 0, 8, 0, 0>>, w.mag)
    ELSE NatLess(w.mag, <<0, 0, 8, 0, 0>>)

\* The cross product as a vec of 32-bit components would compute it: the
\* products and their difference in int32_t.
VecCross32(a, b) ==
    LET Two32 == <<0, 0, 16, 0, 0>>
        Low32(mag) == <<mag[1], mag[2], mag[3] % 16, 0, 0>>
        Signed32(u) == IF NatLess(u, <<0, 0, 8, 0, 0>>) THEN Wide(FALSE, u)
                       ELSE Wide(TRUE, NatSub(Two32, u))
        Wrap32(w) == IF ~w.neg THEN Signed32(Low32(w.mag))
                     ELSE IF Low32(w.mag) = NatZero THEN Wide(FALSE, NatZero)
                     ELSE Signed32(NatSub(Two32, Low32(w.mag)))
        p1 == WMul(a.x, b.y)
        p2 == WMul(a.y, b.x)
    IN  IF InInt32(p1) /\ InInt32(p2) /\ InInt32(WSub(p1, p2))
        THEN {[kind |-> "value", v |-> WSub(p1, p2)]}
        ELSE {[kind |-> "value", v |-> Wrap32(WSub(p1, p2))],
              [kind |-> "trap"]}

\* int64_t operator*(const vec& a, const vec& b): a.x * b.y - a.y * b.x.
\* The outcomes the call can have.
VecCross(a, b) == CrossDifference(WMul(a.x, b.y), WMul(a.y, b.x))

(***************************************************************************)
(* The integer distance used for ordering candidates.  A call has a set of *)
(* outcomes: where the code's behaviour is undefined (a signed overflow of *)
(* int, the conversion to int of a value no int holds) the outcomes are    *)
(* those the builds produce.                                               *)
(***************************************************************************)
\* lines 438-439: int(n - f * COORDINATE_PRECISION).  The float widens to
\* double and the product M * 2^-k, M = f.m * 15625 < 2^38, is exact; the
\* difference is rounded to 53 bits and the conversion truncates toward
\* zero.  The difference lies between two integers, t0 nearer zero and t1
\* farther; it rounds to t1 where it is within half a unit of the last
\* place of t1, 2^(L - 54) with L the bit length of |t0|.  The conversion of
\* a NaN, an infinity or a value outside int is undefined: x86-64's
\* cvttsd2si stores INT_MIN, AArch64's fcvtzs saturates (0 for a NaN).
IntMinusScaled(n, f) ==
    LET k == -(f.e + 6)
        kk == IF k > 40 THEN 40 ELSE k
        Pow2(j) == [i \in 1..5 |-> IF i = j \div 14 + 1 THEN 2^(j % 14) ELSE 0]
        Limb(mag, i) == IF i <= 5 THEN mag[i] ELSE 0
        Shr(mag, j) ==
            [i \in 1..5 |->
                Limb(mag, i + j \div 14) \div 2^(j % 14)
                + (Limb(mag, i + j \div 14 + 1) % 2^(j % 14)) * 2^(14 - (j % 14))]
        Len32(mag) == IF mag[3] > 0 THEN 28 + BitLen(mag[3])
                      ELSE IF mag[2] > 0 THEN 14 + BitLen(mag[2])
                      ELSE BitLen(mag[1])
        M == NatMul(NatOfInt(f.m), NatOfInt(15625))
        whole == Shr(M, kk)
        frac == NatSub(M, NatMul(whole, Pow2(kk)))
        N1 == WSub(WideOfInt(n), Wide(f.s = -1, whole))
        lo == IF f.s = 1 THEN WSub(N1, WideOfInt(1)) ELSE N1
        hi == WAdd(lo, WideOfInt(1))
        t0 == IF lo.neg THEN hi ELSE lo
        t1 == IF lo.neg THEN lo ELSE hi
        j == k - 54 + Len32(t0.mag)
        roundsAway ==
            IF lo.neg = (f.s = -1)
            THEN j >= 0 /\ (j >= 40 \/ ~NatLess(Pow2(j), frac))
            ELSE k <= 40 /\ j >= 0
                 /\ ~NatLess(Pow2(j), NatSub(Pow2(kk), frac))
        Undefined(saturated) == {WideOfInt(INT_MIN), WideOfInt(saturated)}
    IN  IF f.k = "nan" THEN Undefined(0)
        ELSE IF f.k = "zero" THEN {WideOfInt(n)}
        ELSE IF f.k = "inf" \/ k <= 0
        THEN Undefined(IF f.s = 1 THEN INT_MIN ELSE INT_MAX)
        ELSE IF frac = NatZero
        THEN (IF InInt32(N1) THEN {N1}
              ELSE Undefined(IF N1.neg THEN INT_MIN ELSE INT_MAX))
        ELSE IF InInt32(t0) /\ InInt32(IF roundsAway THEN t1 ELSE t0)
        THEN {IF roundsAway THEN t1 ELSE t0}
        ELSE Undefined(IF lo.neg THEN INT_MIN ELSE INT_MAX)

\* lines 401-442, on the planar values x, y of the input point, a, b of the
\* source and c, d of the target; the steps are read from the last line up:
\* the slope m, the foot (p, q), the ratio and its NaN fallback, the offset
\* (dx, dy) to the point the ratio selects, and the distance.  An outcome
\* tells the offset, the point selected (sel) and whether an int operation
\* overflowed; a signed overflow wraps or traps, and the square root of a
\* negative sum is a NaN, whose conversion to int is undefined.
OrderedApproximation(input_point, segment_source, segment_target, x, y, a, b, c, d) ==
    LET Low32(mag) == <<mag[1], mag[2], mag[3] % 16, 0, 0>>
        Signed32(u) == IF NatLess(u, <<0, 0, 8, 0, 0>>) THEN Wide(FALSE, u)
                       ELSE Wide(TRUE, NatSub(<<0, 0, 16, 0, 0>>, u))
        Wrap32(w) ==
            IF ~w.neg THEN Signed32(Low32(w.mag))
            ELSE IF Low32(w.mag) = NatZero THEN Wide(FALSE, NatZero)
            ELSE Signed32(NatSub(<<0, 0, 16, 0, 0>>, Low32(w.mag)))
        IntOf(w) == IF w.neg
                    THEN -w.mag[1] - w.mag[2] * 2^14 + (-w.mag[3]) * 2^28
                    ELSE w.mag[1] + w.mag[2] * 2^14 + w.mag[3] * 2^28
        Root(n) == CHOOSE r \in 0..46340 :
                       r * r <= n /\ (r = 46340 \/ (r + 1) * (r + 1) > n)
        Value(sel, v, dx, dy, overflow) ==
            [kind |-> "value", v |-> v, sel |-> sel,
             dx |-> IntOf(dx.v), dy |-> IntOf(dy.v), overflow |-> overflow]
        Trap(sel) == [kind |-> "trap", sel |-> sel, overflow |-> TRUE]
        Wrapped(sel, dx, dy, w) ==
            IF w.neg
            THEN {Value(sel, INT_MIN, dx, dy, TRUE),
                  Value(sel, 0, dx, dy, TRUE)}
            ELSE {Value(sel, Root(IntOf(w)), dx, dy, TRUE)}
        \* line 441: const int dist = sqrt(dx * dx + dy * dy)
        Dist(sel, dx, dy, sum) ==
            IF dx.trap \/ dy.trap THEN {Trap(sel)}
            ELSE IF /\ InInt32(WMul(dx.v, dx.v))
                    /\ InInt32(WMul(dy.v, dy.v))
                    /\ InInt32(sum)
                 THEN {Value(sel, Root(IntOf(sum)), dx, dy, FALSE)}
                 ELSE {Trap(sel)} \cup Wrapped(sel, dx, dy, Wrap32(sum))
        Offsets(sel, dxs, dys) ==
            UNION {Dist(sel, dx, dy,
                        WAdd(WMul(dx.v, dx.v), WMul(dy.v, dy.v))) :
                       dx \in dxs, dy \in dys}
        \* the difference of two ints
        IntSub(w) ==
            IF InInt32(w) THEN {[trap |-> FALSE, v |-> w]}
            ELSE {[trap |-> FALSE, v |-> Wrap32(w)],
                  [trap |-> TRUE, v |-> Wide(FALSE, NatZero)]}
        Converted(ws) == {[trap |-> FALSE, v |-> w] : w \in ws}
        \* lines 426-440
        Select(p, q, ratio) ==
            IF FLt(ratio, Zero(1))
            THEN Offsets("source",
                         IntSub(WSub(WideOfInt(input_point.lon),
                                     WideOfInt(segment_source.lon))),
                         IntSub(WSub(WideOfInt(input_point.lat),
                                     WideOfInt(segment_source.lat))))
            ELSE IF FLt(FOne, ratio)
            THEN Offsets("target",
                         IntSub(WSub(WideOfInt(input_point.lon),
                                     WideOfInt(segment_target.lon))),
                         IntSub(WSub(WideOfInt(input_point.lat),
                                     WideOfInt(segment_target.lat))))
            ELSE Offsets("between",
                         Converted(IntMinusScaled(input_point.lon, q)),
                         Converted(IntMinusScaled(input_point.lat, y2lat(p))))
        \* lines 420-423
        Resolve(p, q, raw) ==
            Select(p, q,
                   IF IsNaN(raw)
                   THEN (IF segment_target = input_point
                         THEN FOne ELSE Zero(1))
                   ELSE raw)
        \* lines 415-417: nY and ratio = (p - nY * a) / c
        Ratio(p, q) ==
            Resolve(p, q,
                    FDiv(FSub(p, FMul(FDiv(FSub(FMul(d, p), FMul(c, q)),
                                           FSub(FMul(a, d), FMul(b, c))),
                                      a)),
                         c))
        \* line 408: q = b + m * (p - a)
        Ordinate(m, p) == Ratio(p, FAdd(b, FMul(m, FSub(p, a))))
        \* line 407: p = ((x + (m * y)) + (m * m * a - m * b)) / (1.f + m * m)
        Sloped(m) ==
            Ordinate(m, FDiv(FAdd(FAdd(x, FMul(m, y)),
                                  FSub(FMul(FMul(m, m), a), FMul(m, b))),
                             FAdd(FOne, FMul(m, m))))
    \* lines 403-414: a != c, with m = (d - b) / (c - a), or p = c, q = y
    IN  IF ~FEq(a, c) THEN Sloped(FDiv(FSub(d, b), FSub(c, a)))
        ELSE Ratio(c, y)

\* int FixedPointCoordinate::OrderedPerpendicularDistanceApproximation(
\*     input_point, segment_source, segment_target): the outcomes of a call.
OrderedPerpendicularDistanceApproximation(input_point, segment_source, segment_target) ==
    OrderedApproximation(
        input_point, segment_source, segment_target,
        lat2y(IntOverPrecision(input_point.lat)),
        IntOverPrecision(input_point.lon),
        lat2y(IntOverPrecision(segment_source.lat)),
        IntOverPrecision(segment_source.lon),
        lat2y(IntOverPrecision(segment_target.lat)),
        IntOverPrecision(segment_target.lon))

(***************************************************************************)
(* The coordinate object: construction, assignment of the public fields,   *)
(* Reset(), isSet().  pc names the last operation that wrote the object;   *)
(* ret holds what isSet() returned since.                                  *)
(***************************************************************************)
NotCalled == [called |-> FALSE]

ReturnedBy(fn, r) == [called |-> TRUE, fn |-> fn, r |-> r]

NoVec == [x |-> WideOfInt(0), y |-> WideOfInt(0)]

\* Field values an object is given: the sentinel, its neighbour, the
\* largest int, and FieldSteps degrees on either side of zero.
FieldSteps == 1

FieldValues ==
    {INT_MIN, INT_MIN + 1, INT_MAX} \cup
    {k * COORDINATE_PRECISION : k \in (-FieldSteps)..FieldSteps}

InitCoord == /\ pc = "FixedPointCoordinate()"
             /\ coord = DefaultCoordinate
             /\ query = DefaultCoordinate
             /\ source = DefaultCoordinate
             /\ target = DefaultCoordinate
             /\ res3 = NotCalled
             /\ res5 = NotCalled
             /\ ret = NotCalled
             /\ va = NoVec
             /\ vb = NoVec
             /\ cross = NotCalled

\* FixedPointCoordinate::FixedPointCoordinate()
Construct ==
    /\ coord' = DefaultCoordinate
    /\ pc' = "FixedPointCoordinate()"
    /\ ret' = NotCalled
    /\ UNCHANGED <<query, source, target, res3, res5, va, vb, cross>>

\* FixedPointCoordinate::FixedPointCoordinate(int lat, int lon)
ConstructFrom ==
    \E la \in FieldValues, lo \in FieldValues :
        /\ coord' = Coordinate(la, lo)
        /\ pc' = "FixedPointCoordinate(lat, lon)"
        /\ ret' = NotCalled
        /\ UNCHANGED <<query, source, target, res3, res5, va, vb, cross>>

\* c.lat = v
AssignLat ==
    \E v \in FieldValues :
        /\ coord' = [coord EXCEPT !.lat = v]
        /\ pc' = "lat ="
        /\ ret' = NotCalled
        /\ UNCHANGED <<query, source, target, res3, res5, va, vb, cross>>

\* c.lon = v
AssignLon ==
    \E v \in FieldValues :
        /\ coord' = [coord EXCEPT !.lon = v]
        /\ pc' = "lon ="
        /\ ret' = NotCalled
        /\ UNCHANGED <<query, source, target, res3, res5, va, vb, cross>>

\* void FixedPointCoordinate::Reset()
Reset ==
    /\ coord' = Coordinate(INT_MIN, INT_MIN)
    /\ pc' = "Reset()"
    /\ ret' = NotCalled
    /\ UNCHANGED <<query, source, target, res3, res5, va, vb, cross>>

\* c.isSet()
CallIsSet ==
    /\ pc \in {"FixedPointCoordinate()", "FixedPointCoordinate(lat, lon)",
               "lat =", "lon =", "Reset()"}
    /\ ret' = ReturnedBy("isSet", isSet(coord))
    /\ UNCHANGED <<pc, coord>>
    /\ UNCHANGED <<query, source, target, res3, res5, va, vb, cross>>

NextCoord ==
    \/ Construct
    \/ ConstructFrom
    \/ AssignLat
    \/ AssignLon
    \/ Reset
    \/ CallIsSet

SpecCoord == InitCoord /\ [][NextCoord]_vars

(***************************************************************************)
(* Calls of the two projection variants on one query and one segment.      *)
(***************************************************************************)
\* Segment ends lie on a grid of 30 degrees of latitude, -30 to
\* 30 * LatSteps, and of whole degrees of longitude, -1 to LonSteps; two
\* more ends lie off the grid.
LatSteps == 2

LonSteps == 1

SegCoords ==
    {Coordinate(k * 30 * COORDINATE_PRECISION, j * COORDINATE_PRECISION) :
         k \in (-1)..LatSteps, j \in (-1)..LonSteps} \cup
    {Coordinate(30 * COORDINATE_PRECISION, 2 * COORDINATE_PRECISION),
     Coordinate(60 * COORDINATE_PRECISION, 5 * COORDINATE_PRECISION)}

\* Queries: the segment ends, points one unit off the grid, mid-points, a
\* point out of bounds and the unset coordinate.
QueryCoords ==
    SegCoords \cup
    {Coordinate(la, lo) : la \in {0, 1, 45 * COORDINATE_PRECISION},
                          lo \in {COORDINATE_PRECISION \div 2,
                                  COORDINATE_PRECISION}} \cup
    {Coordinate(0, 181 * COORDINATE_PRECISION), DefaultCoordinate}

InitProj == /\ pc = "projection"
            /\ query \in QueryCoords
            /\ source \in SegCoords
            /\ target \in SegCoords
            /\ res3 = NotCalled
            /\ res5 = NotCalled
            /\ coord = DefaultCoordinate
            /\ ret = NotCalled
            /\ va = NoVec
            /\ vb = NoVec
            /\ cross = NotCalled

\* ComputePerpendicularDistance(query, source, target)
Call3 ==
    /\ pc \in {"projection", "entry"}
    /\ ~res3.called /\ ~ret.called
    /\ res3' = ReturnedBy("ComputePerpendicularDistance (3)",
                         ComputePerpendicularDistance3(query, source, target))
    /\ UNCHANGED <<pc, query, source, target, res5, coord, ret, va, vb, cross>>

\* ComputePerpendicularDistance(source, target, query, nearest, ratio)
Call5 ==
    /\ pc \in {"projection", "entry"}
    /\ ~res5.called /\ ~ret.called
    /\ res5' = ReturnedBy("ComputePerpendicularDistance (5)",
                         ComputePerpendicularDistance5(source, target, query))
    /\ UNCHANGED <<pc, query, source, target, res3, coord, ret, va, vb, cross>>

NextProj == Call3 \/ Call5

SpecProj == InitProj /\ [][NextProj]_vars

\* The same calls on the segments whose two ends are one coordinate.
InitDegenerate == InitProj /\ source = target

SpecDegenerate == InitDegenerate /\ [][NextProj]_vars

(***************************************************************************)
(* A call of the ordering distance on one query and one segment.           *)
(***************************************************************************)
\* OrderedPerpendicularDistanceApproximation(query, source, target)
CallOrdered ==
    /\ pc = "projection"
    /\ ~ret.called
    /\ \E r \in OrderedPerpendicularDistanceApproximation(query, source,
                                                          target) :
           ret' = ReturnedBy("OrderedPerpendicularDistanceApproximation", r)
    /\ UNCHANGED <<pc, query, source, target, res3, res5, coord, va, vb, cross>>

SpecOrdered == InitProj /\ [][CallOrdered]_vars

(***************************************************************************)
(* Calls of every distance, bearing and projection entry point, on         *)
(* arguments that may be unset or out of bounds: one distance or bearing   *)
(* call, or the two projection calls.                                      *)
(***************************************************************************)
EntryCoords ==
    {DefaultCoordinate,
     Coordinate(INT_MIN, 0),
     Coordinate(0, 0),
     Coordinate(80 * COORDINATE_PRECISION, -1),
     Coordinate(30 * COORDINATE_PRECISION, COORDINATE_PRECISION),
     Coordinate(-45 * COORDINATE_PRECISION, 179 * COORDINATE_PRECISION),
     Coordinate(60 * COORDINATE_PRECISION, -120 * COORDINATE_PRECISION),
     Coordinate(-80 * COORDINATE_PRECISION, 1),
     Coordinate(0, 181 * COORDINATE_PRECISION),
     Coordinate(91 * COORDINATE_PRECISION, 0)}

InitEntry == /\ pc = "entry"
             /\ query \in EntryCoords
             /\ source \in EntryCoords
             /\ target \in EntryCoords
             /\ res3 = NotCalled
             /\ res5 = NotCalled
             /\ coord = DefaultCoordinate
             /\ ret = NotCalled
             /\ va = NoVec
             /\ vb = NoVec
             /\ cross = NotCalled

\* FixedPointCoordinate::ApproximateDistance(query, source)
CallApproximateDistance ==
    /\ pc = "entry"
    /\ ~ret.called /\ ~res3.called /\ ~res5.called
    /\ ret' = ReturnedBy("ApproximateDistance",
                         ApproximateDistance(query, source))
    /\ UNCHANGED <<pc, query, source, target, res3, res5, coord, va, vb, cross>>

\* FixedPointCoordinate::ApproximateEuclideanDistance(query, source)
CallApproximateEuclideanDistance ==
    /\ pc = "entry"
    /\ ~ret.called /\ ~res3.called /\ ~res5.called
    /\ ret' = ReturnedBy("ApproximateEuclideanDistance",
                         ApproximateEuclideanDistance(query, source))
    /\ UNCHANGED <<pc, query, source, target, res3, res5, coord, va, vb, cross>>

\* FixedPointCoordinate::GetBearing(query, source)
CallGetBearing ==
    /\ pc = "entry"
    /\ ~ret.called /\ ~res3.called /\ ~res5.called
    /\ ret' = ReturnedBy("GetBearing", GetBearing(query, source))
    /\ UNCHANGED <<pc, query, source, target, res3, res5, coord, va, vb, cross>>

\* query.GetBearing(source)
CallGetBearingMember ==
    /\ pc = "entry"
    /\ ~ret.called /\ ~res3.called /\ ~res5.called
    /\ ret' = ReturnedBy("GetBearing(other)", GetBearingMember(query, source))
    /\ UNCHANGED <<pc, query, source, target, res3, res5, coord, va, vb, cross>>

NextEntry ==
    \/ CallApproximateDistance
    \/ CallApproximateEuclideanDistance
    \/ CallGetBearing
    \/ CallGetBearingMember
    \/ Call3
    \/ Call5

SpecEntry == InitEntry /\ [][NextEntry]_vars

(***************************************************************************)
(* Two vectors, each the difference of two locations, and their cross      *)
(* product.                                                                *)
(***************************************************************************)
\* The number of small positive coordinates among the locations.
VecSteps == 0

\* Location coordinates: the ends of the 32-bit range, zero, and 1 to
\* VecSteps.
Locations ==
    {[x |-> x, y |-> y] : x, y \in {INT_MIN, 0, INT_MAX} \cup (1..VecSteps)}

InitVec == /\ pc = "vec"
           /\ va = NoVec
           /\ vb = NoVec
           /\ cross = NotCalled
           /\ query = DefaultCoordinate
           /\ source = DefaultCoordinate
           /\ target = DefaultCoordinate
           /\ res3 = NotCalled
           /\ res5 = NotCalled
           /\ coord = DefaultCoordinate
           /\ ret = NotCalled

\* a = vec(p) - vec(q)
DeltaA ==
    /\ pc = "vec"
    /\ \E p \in Locations, q \in Locations :
           va' = VecMinus(VecOf(p), VecOf(q))
    /\ pc' = "vec a"
    /\ UNCHANGED <<vb, cross>>
    /\ UNCHANGED <<query, source, target, res3, res5, coord, ret>>

\* b = vec(p) - vec(q)
DeltaB ==
    /\ pc = "vec a"
    /\ \E p \in Locations, q \in Locations :
           vb' = VecMinus(VecOf(p), VecOf(q))
    /\ pc' = "vec b"
    /\ UNCHANGED <<va, cross>>
    /\ UNCHANGED <<query, source, target, res3, res5, coord, ret>>

\* a * b
Cross ==
    /\ pc = "vec b"
    /\ \E r \in VecCross(va, vb) : cross' = ReturnedBy("operator*", r)
    /\ pc' = "vec done"
    /\ UNCHANGED <<va, vb>>
    /\ UNCHANGED <<query, source, target, res3, res5, coord, ret>>

NextVec == DeltaA \/ DeltaB \/ Cross

SpecVec == InitVec /\ [][NextVec]_vars


(***************************************************************************)
(* Properties                                                              *)
(***************************************************************************)
\* C1: for a segment of valid, set coordinates and a query equal to its
\* source, both projection variants give ratio 0, the source as nearest
\* point and distance 0, whatever the target (the source itself, a target
\* of latitude 0, ends with a*d - b*c = 0).
C1_QueryAtSource ==
    \A res \in {res3, res5} :
        (/\ res.called
         /\ \A c \in {query, source, target} : isSet(c) /\ isValid(c)
         /\ query = source)
        => /\ res.r.ok
           /\ FEq(res.r.ratio, Zero(1))
           /\ res.r.nearest = source
           /\ FEq(res.r.distance, Zero(1))

\* C2: for a segment of valid, set coordinates and a query equal to its
\* target, the projection gives ratio 1, the target as nearest point and
\* distance 0, by the quotient or by the NaN fallback.
C2_QueryAtTarget ==
    (/\ res5.called
     /\ \A c \in {query, source, target} : isSet(c) /\ isValid(c)
     /\ query = target)
    => /\ res5.r.ok
       /\ FEq(res5.r.ratio, FOne)
       /\ res5.r.nearest = target
       /\ FEq(res5.r.distance, Zero(1))

\* C3: where the foot of the perpendicular lies strictly between the ends
\* of the segment, the ratio is strictly between 0 and 1 and the nearest
\* point is the foot (here for segments along a meridian or a parallel,
\* whose foot is known: the query's latitude on the meridian, the query's
\* longitude on the parallel, to 10 scaled units); for S = (0, 0),
\* T = (0, 1000000) and a query at longitude 500000 and latitude 0 or 1 the
\* ratio is 0.5 and the nearest point (0, 500000).
C3_InteriorFoot ==
    (/\ res5.called
     /\ \A c \in {query, source, target} : isSet(c) /\ isValid(c))
    => /\ (/\ source.lon = target.lon
           /\ \/ source.lat < query.lat /\ query.lat < target.lat
              \/ target.lat < query.lat /\ query.lat < source.lat)
          => /\ res5.r.ok
             /\ FLt(Zero(1), res5.r.ratio)
             /\ FLt(res5.r.ratio, FOne)
             /\ res5.r.sel = "between"
             /\ res5.r.nearest.lat - query.lat \in (-10)..10
             /\ res5.r.nearest.lon - source.lon \in (-10)..10
       /\ (/\ source.lat = target.lat
           /\ \/ source.lon < query.lon /\ query.lon < target.lon
              \/ target.lon < query.lon /\ query.lon < source.lon)
          => /\ res5.r.ok
             /\ FLt(Zero(1), res5.r.ratio)
             /\ FLt(res5.r.ratio, FOne)
             /\ res5.r.sel = "between"
             /\ res5.r.nearest.lat - source.lat \in (-10)..10
             /\ res5.r.nearest.lon - query.lon \in (-10)..10
       /\ (/\ source = Coordinate(0, 0)
           /\ target = Coordinate(0, COORDINATE_PRECISION)
           /\ query.lat \in {0, 1}
           /\ query.lon = COORDINATE_PRECISION \div 2)
          => /\ res5.r.ok
             /\ FEq(res5.r.ratio, FHalf)
             /\ res5.r.nearest = Coordinate(0, COORDINATE_PRECISION \div 2)

\* C4: for a segment whose ends are one valid, set coordinate and a valid,
\* set query, the projection returns that coordinate as nearest point and
\* the distance ApproximateEuclideanDistance(query, source), whether the
\* raw ratio was NaN or an infinity.
C4_DegenerateSegment ==
    \A res \in {res3, res5} :
        (/\ res.called
         /\ \A c \in {query, source, target} : isSet(c) /\ isValid(c)
         /\ source = target)
        => /\ res.r.ok
           /\ res.r.nearest = source
           /\ ApproximateEuclideanDistance(query, source).ok
           /\ res.r.distance = ApproximateEuclideanDistance(query, source).v

\* A degenerate segment off the query was projected on, the ratio left
\* infinite.
C4_Witness ==
    /\ res5.called
    /\ \A c \in {query, source, target} : isSet(c) /\ isValid(c)
    /\ source = target
    /\ query # source
    /\ res5.r.ok
    /\ res5.r.ratio.k = "inf"
    /\ res5.r.nearest = source

\* C5: for every query and segment the two projection variants take the
\* same branches and return the same distance, nearest point and ratio.
C5_VariantsAgree ==
    (res3.called /\ res5.called)
    => /\ res3.r.ok <=> res5.r.ok
       /\ res3.r.ok => res3.r = res5.r

\* C6: for valid, set query, source and target the ratio the 5-argument
\* projection puts out is finite (no NaN, no infinity) and the distance it
\* returns is finite and not negative.
C6_FiniteOutputs ==
    (/\ res5.called
     /\ \A c \in {query, source, target} : isSet(c) /\ isValid(c)
     /\ res5.r.ok)
    => /\ IsFinite(res5.r.ratio)
       /\ IsFinite(res5.r.distance)
       /\ FLe(Zero(1), res5.r.distance)

\* C7: a distance or bearing call with an unset argument, and a projection
\* call with an unset or out-of-bounds query, source or target, ends in a
\* failed assertion and returns nothing.
C7_FailFast ==
    /\ (/\ ret.called
        /\ ~isSet(query) \/ ~isSet(source))
       => ~ret.r.ok
    /\ \A res \in {res3, res5} :
           (/\ res.called
            /\ \E c \in {query, source, target} : ~isSet(c) \/ ~isValid(c))
           => ~res.r.ok

\* C8: whatever constructions, assignments and Reset() calls came before,
\* isSet() returns true iff neither field is the sentinel; after the
\* default constructor and after Reset() both fields are the sentinel and
\* isSet() returns false.
C8_SetIffNoSentinel ==
    /\ ret.called => (ret.r <=> (coord.lat # INT_MIN /\ coord.lon # INT_MIN))
    /\ pc \in {"FixedPointCoordinate()", "Reset()"}
       => /\ coord.lat = INT_MIN
          /\ coord.lon = INT_MIN
          /\ ret.called => ~ret.r

\* isSet() was called on an object with the sentinel in the latitude alone.
C8_Witness ==
    /\ pc = "lat ="
    /\ coord.lat = INT_MIN
    /\ coord.lon # INT_MIN
    /\ ret.called
    /\ ~ret.r

\* C9: for set coordinates both GetBearing overloads leave their two loops
\* and return a value b with 0 <= b < 360, also where the first loop lands
\* on 360.
C9_BearingInRange ==
    (/\ ret.called
     /\ ret.fn \in {"GetBearing", "GetBearing(other)"}
     /\ isSet(query) /\ isSet(source))
    => /\ ret.r.done
       /\ FLe(Zero(1), ret.r.v)
       /\ FLt(ret.r.v, Fin(1, 11796480, -15))

\* A bearing of set coordinates was returned after the first loop added
\* 360 once and the second subtracted it once.
C9_Witness ==
    /\ ret.called
    /\ ret.fn \in {"GetBearing", "GetBearing(other)"}
    /\ isSet(query) /\ isSet(source)
    /\ ret.r.done
    /\ ret.r.adds = 1
    /\ ret.r.subs = 1

\* C10: for two vectors whose components are differences of two signed
\* 32-bit coordinates, the cross product returns a.x * b.y - a.y * b.x
\* exactly, neither product nor the subtraction overflowing int64_t.
C10_NoOverflow ==
    cross.called
    => /\ InInt64(WMul(va.x, vb.y))
       /\ InInt64(WMul(va.y, vb.x))
       /\ InInt64(WSub(WMul(va.x, vb.y), WMul(va.y, vb.x)))
       /\ cross.r.kind = "value"
       /\ cross.r.v = WSub(WMul(va.x, vb.y), WMul(va.y, vb.x))

\* C10, amended: for two vectors whose components each lie in the signed
\* 32-bit range, the cross product returns a.x * b.y - a.y * b.x exactly,
\* neither product nor the subtraction overflowing int64_t.
C10_NoOverflowInRange ==
    (/\ cross.called
     /\ InInt32(va.x) /\ InInt32(va.y) /\ InInt32(vb.x) /\ InInt32(vb.y))
    => /\ InInt64(WMul(va.x, vb.y))
       /\ InInt64(WMul(va.y, vb.x))
       /\ InInt64(WSub(WMul(va.x, vb.y), WMul(va.y, vb.x)))
       /\ cross.r.kind = "value"
       /\ cross.r.v = WSub(WMul(va.x, vb.y), WMul(va.y, vb.x))

\* The cross product of (-2^31, -2^31) and (2^31 - 1, -2^31) was returned:
\* 2^63 - 2^31.
C10_Witness ==
    /\ cross.called
    /\ va = [x |-> WideOfInt(INT_MIN), y |-> WideOfInt(INT_MIN)]
    /\ vb = [x |-> WideOfInt(INT_MAX), y |-> WideOfInt(INT_MIN)]
    /\ cross.r.kind = "value"
    /\ InInt64(cross.r.v)
    /\ ~InInt32(cross.r.v)

\* C11: for valid, set inputs OrderedPerpendicularDistanceApproximation
\* returns the integer truncation of sqrt(dx^2 + dy^2), (dx, dy) the offset
\* from the query to the point the ratio selected; dx*dx + dy*dy does not
\* overflow int, the result is not negative, and of two candidates for one
\* query the one with the larger offset never gets the smaller value.
C11_OrderedDistance ==
    (/\ ret.called
     /\ ret.fn = "OrderedPerpendicularDistanceApproximation"
     /\ \A c \in {query, source, target} : isSet(c) /\ isValid(c))
    => /\ ret.r.kind = "value"
       /\ ~ret.r.overflow
       /\ ret.r.v >= 0
       /\ ret.r.v * ret.r.v <= ret.r.dx * ret.r.dx + ret.r.dy * ret.r.dy
       /\ \/ ret.r.v = 46340
          \/ (ret.r.v + 1) * (ret.r.v + 1)
                 > ret.r.dx * ret.r.dx + ret.r.dy * ret.r.dy
       /\ \A c \in SegCoords :
            \A o \in OrderedPerpendicularDistanceApproximation(query, c, c) :
               LET Square(r) ==
                       WAdd(WMul(WideOfInt(r.dx), WideOfInt(r.dx)),
                            WMul(WideOfInt(r.dy), WideOfInt(r.dy))).mag
               IN  o.kind = "value" =>
                       /\ NatLess(Square(ret.r), Square(o)) => ret.r.v <= o.v
                       /\ NatLess(Square(o), Square(ret.r)) => o.v <= ret.r.v

====
